---- MODULE Spec2Model ----
(***************************************************************************)
(* Model of src/streamlit-app.py, the Streamlit election dashboard.        *)
(*                                                                         *)
(* Three specifications share this module:                                 *)
(*   SpecReduce   - the pandas reduction of one polled batch               *)
(*                  (update_data, lines 128-130, 144, 159-160);            *)
(*   SpecPaginate - paginate_table / split_frame (lines 82-111);           *)
(*   Spec         - the script run: sidebar, update_data, the memoised     *)
(*                  fetch_voting_stats and the two Kafka pipelines.        *)
(* A DataFrame is a record [index, rows]: index is the sequence of row     *)
(* labels, rows the sequence of row records, both in row order.            *)
(***************************************************************************)
EXTENDS Integers, Sequences, FiniteSets, TLC

\* ------------------------------------------------------------------ bounds
MaxKey == 2        \* grouping keys (candidate_id / state) are 1..MaxKey
MaxCount == 2      \* counters (total_votes / count) are 1..MaxCount
MaxBatch == 3      \* longest polled batch of SpecReduce
MaxSmallRows == 4  \* SpecPaginate: tables up to this length take every count column
MaxRows == 26      \* SpecPaginate: longest table
MaxPolled == 2     \* Spec: longest batch one poll returns
MaxVoters == 1     \* Spec: rows in table voters
Names == {"x", "y"}  \* descriptive field values (candidate_name)

VARIABLES
  \* SpecReduce
  topic,              \* topic the batch was polled from
  data,               \* the polled batch (list of message values)
  results,            \* DataFrame after line 129 / 160
  leading_candidate,  \* row selected at line 130
  table,              \* results as displayed (line 144 / 160)
  rstage,             \* "polled" | "reduced"
  \* SpecPaginate
  table_data,         \* the frame handed to paginate_table
  sort,               \* radio "Sort Data"
  sort_field,         \* selectbox "Sort By"
  sort_direction,     \* radio "Direction": "up" | "down"
  sorted_data,        \* table_data after line 100
  batch_size,         \* selectbox "Page Size"
  total_pages,        \* line 106
  current_page,       \* number_input "Page"
  pages,              \* result of split_frame
  shown,              \* what line 111 (or line 89) displays
  pstage,             \* "called" | "returned"
  \* Spec
  pc,                 \* position of the script run, or "idle" between runs
  call,               \* the update_data call in progress: "sidebar" (line 176) | "main" (line 181)
  button,             \* st.sidebar.button('Refresh Data') returns True in this run
  pending,            \* rerun request not yet served: "none" | "rerun" | "button"
  last_update,        \* st.session_state['last_update']: who wrote it last
  memo,               \* st.cache_data entry of fetch_voting_stats
  store_up,           \* the PostgreSQL store accepts connections
  store_counts,       \* <<count(*) of voters, count(*) of candidates>>
  d_refresh,          \* display: "Last refreshed at" text
  d_stats,            \* display: the two metrics
  d_votes,            \* display: leading candidate and statistics table
  d_turnout,          \* display: the page of the turnout table
  errors,             \* st.error messages of the current run
  stats_src,          \* how the current pass obtained the stats
  votes_out,          \* outcome of the current pass's candidate pipeline
  turnout_out,        \* outcome of the current pass's turnout pipeline
  owed                \* ghost: 1 while the request this run serves has not yet got its pass

vars_r == <<topic, data, results, leading_candidate, table, rstage>>
vars_p == <<table_data, sort, sort_field, sort_direction, sorted_data,
            batch_size, total_pages, current_page, pages, shown, pstage>>
vars_m == <<pc, call, button, pending, last_update, memo, store_up, store_counts,
            d_refresh, d_stats, d_votes, d_turnout, errors,
            stats_src, votes_out, turnout_out, owed>>
vars == <<vars_r, vars_p, vars_m>>

None == "None"
VotesTopic == "aggregated_votes_per_candidate"
TurnoutTopic == "aggregated_turnout_by_location"

\* ------------------------------------------------------- pandas helpers
Range(s) == {s[i] : i \in 1..Len(s)}

SetMax(S) == CHOOSE m \in S : \A x \in S : x <= m
SetMin(S) == CHOOSE m \in S : \A x \in S : m <= x

RECURSIVE SortedSeq(_)
\* the elements of a finite set of integers in increasing order
SortedSeq(S) == IF S = {} THEN <<>>
                ELSE <<SetMin(S)>> \o SortedSeq(S \ {SetMin(S)})

\* pd.DataFrame(data): default RangeIndex 0..n-1
DataFrame(d) == [index |-> [i \in 1..Len(d) |-> i - 1], rows |-> d]

EmptyFrame == DataFrame(<<>>)

\* position of label l in the frame
PosOf(df, l) == CHOOSE i \in 1..Len(df.index) : df.index[i] = l

\* df.loc[labels]: the rows with these labels, in the order of labels
Loc(df, labels) ==
  [index |-> labels,
   rows  |-> [i \in 1..Len(labels) |-> df.rows[PosOf(df, labels[i])]]]

\* positions of the rows whose column `by` equals k
GroupPos(df, by, k) == {i \in 1..Len(df.rows) : df.rows[i][by] = k}

\* Series.idxmax restricted to the positions P: label of the FIRST row
\* holding the maximum of column col
IdxmaxLast(df, P, col) ==
  LET m == SetMax({df.rows[i][col] : i \in P})
  IN  df.index[SetMax({i \in P : df.rows[i][col] = m})]

IdxminFirst(df, P, col) ==
  LET m == SetMin({df.rows[i][col] : i \in P})
  IN  df.index[SetMin({i \in P : df.rows[i][col] = m})]

Idxmax(df, P, col) ==
  LET m == SetMax({df.rows[i][col] : i \in P})
  IN  df.index[SetMin({i \in P : df.rows[i][col] = m})]

\* df.groupby(by)[col].idxmax(): groups in sorted key order (sort=True),
\* one label per group
GroupbyIdxmax(df, by, col) ==
  LET keys == SortedSeq({df.rows[i][by] : i \in 1..Len(df.rows)})
  IN  [g \in 1..Len(keys) |-> Idxmax(df, GroupPos(df, by, keys[g]), col)]

\* df[col].idxmax() over the whole frame
SeriesIdxmaxLast(df, col) == IdxmaxLast(df, 1..Len(df.rows), col)

SeriesIdxmax(df, col) == Idxmax(df, 1..Len(df.rows), col)

\* df.loc[label] for a single label: the row
LocRow(df, l) == df.rows[PosOf(df, l)]

\* df.reset_index(drop=True)
ResetIndex(df) == DataFrame(df.rows)

\* df[[c1, c2, ...]]: column projection
Project(df, cols) ==
  [index |-> df.index,
   rows  |-> [i \in 1..Len(df.rows) |-> [c \in cols |-> df.rows[i][c]]]]

\* ------------------------------------------------------- the reduction
\* update_data, line 129
ReduceVotes(d) ==
  LET df == DataFrame(d)
  IN  Loc(df, GroupbyIdxmax(df, "candidate_id", "total_votes"))

\* update_data, line 130
LeadingCandidate(res) == LocRow(res, SeriesIdxmax(res, "total_votes"))

\* update_data, line 144
StatisticsTable(res) ==
  ResetIndex(Project(res, {"candidate_id", "candidate_name", "total_votes"}))

\* update_data, line 160
ReduceTurnout(d) ==
  LET df == DataFrame(d)
  IN  ResetIndex(Loc(df, GroupbyIdxmax(df, "state", "count")))

\* ---------------------------------------------------- SpecReduce inputs
\* party_affiliation and photo_url are carried through the reduction
\* exactly as candidate_name is; candidate_name stands for all three.
VoteRecords ==
  [candidate_id : 1..MaxKey, candidate_name : Names, total_votes : 1..MaxCount]

TurnoutRecords == [state : 1..MaxKey, count : 1..MaxCount]

SeqsUpTo(S, n) == UNION {[1..k -> S] : k \in 0..n}

VoteBatches == SeqsUpTo(VoteRecords, MaxBatch)
TurnoutBatches == SeqsUpTo(TurnoutRecords, MaxBatch)

KeyCol == IF topic = VotesTopic THEN "candidate_id" ELSE "state"
CounterCol == IF topic = VotesTopic THEN "total_votes" ELSE "count"

\* the variables of SpecReduce while another specification runs
IdleReduce ==
  /\ topic = None /\ data = <<>> /\ results = None
  /\ leading_candidate = None /\ table = None /\ rstage = "idle"

\* the variables of SpecPaginate while another specification runs
IdlePaginate ==
  /\ table_data = None /\ sort = None /\ sort_field = None
  /\ sort_direction = None /\ sorted_data = None /\ batch_size = None
  /\ total_pages = None /\ current_page = None /\ pages = None
  /\ shown = None /\ pstage = "idle"

\* an empty place of the page
Blank == [val |-> None, age |-> "blank"]

\* the variables of Spec while another specification runs
IdleMain ==
  /\ pc = "off" /\ call = None /\ button = FALSE /\ pending = "none"
  /\ last_update = None /\ memo = <<>> /\ store_up = TRUE
  /\ store_counts = <<0, 1>>
  /\ d_refresh = Blank /\ d_stats = Blank /\ d_votes = Blank /\ d_turnout = Blank
  /\ errors = {} /\ stats_src = None /\ votes_out = None /\ turnout_out = None
  /\ owed = 0

InitReduce ==
  /\ IdlePaginate
  /\ IdleMain
  /\ \/ topic = VotesTopic /\ data \in VoteBatches
     \/ topic = TurnoutTopic /\ data \in TurnoutBatches
  /\ results = None
  /\ leading_candidate = None
  /\ table = None
  /\ rstage = "polled"

\* update_data lines 127-153 on a polled candidate batch
ReduceVotesStep ==
  /\ rstage = "polled"
  /\ topic = VotesTopic
  /\ data # <<>>
  /\ results' = ReduceVotes(data)
  /\ leading_candidate' = LeadingCandidate(results')
  /\ table' = StatisticsTable(results')
  /\ rstage' = "reduced"
  /\ UNCHANGED <<topic, data, vars_p, vars_m>>

\* update_data lines 158-160 on a polled turnout batch
ReduceTurnoutStep ==
  /\ rstage = "polled"
  /\ topic = TurnoutTopic
  /\ data # <<>>
  /\ results' = ReduceTurnout(data)
  /\ table' = results'
  /\ rstage' = "reduced"
  /\ UNCHANGED <<topic, data, leading_candidate, vars_p, vars_m>>

NextReduce == ReduceVotesStep \/ ReduceTurnoutStep

SpecReduce == InitReduce /\ [][NextReduce]_vars
\* ------------------------------------------------------------ pagination
Max(a, b) == IF a >= b THEN a ELSE b
Min(a, b) == IF a <= b THEN a ELSE b

\* df.iloc[a:b]: 0-based half-open slice, clipped to the frame's length
Iloc(df, a, b) ==
  [index |-> SubSeq(df.index, a + 1, Min(b, Len(df.rows))),
   rows  |-> SubSeq(df.rows, a + 1, Min(b, Len(df.rows)))]

\* a split_frame that steps by rows but slices one row short
SplitFrameShort(input_df, rows) ==
  [k \in 1..((Len(input_df.rows) + rows - 1) \div rows) |->
     Iloc(input_df, (k - 1) * rows, (k - 1) * rows + rows - 1)]

\* split_frame, lines 82-84: one slice per i in range(0, len, rows).
\* st.cache_data memoises it by its arguments; it returns what the body
\* returns for them.
SplitFrame(input_df, rows) ==
  [k \in 1..((Len(input_df.rows) + rows - 1) \div rows) |->
     Iloc(input_df, (k - 1) * rows, (k - 1) * rows + rows)]

RECURSIVE Perms(_)
\* every ordering of a finite set, as sequences
Perms(S) == IF S = {} THEN {<<>>}
            ELSE UNION {{<<x>> \o p : p \in Perms(S \ {x})} : x \in S}

Reverse(q) == [i \in 1..Len(q) |-> q[Len(q) + 1 - i]]

RECURSIVE TieOrders(_, _, _)
\* the row orders that list the groups of equal values in the order vals,
\* each group in any internal order
TieOrders(df, by, vals) ==
  IF vals = <<>> THEN {<<>>}
  ELSE {p \o q : p \in Perms(GroupPos(df, by, Head(vals))),
                 q \in TieOrders(df, by, Tail(vals))}

ColumnValues(df, by) == SortedSeq({df.rows[i][by] : i \in 1..Len(df.rows)})

\* a sort_values that ignores the requested direction
SortValuesAscending(df, by, ascending) ==
  {DataFrame([i \in 1..Len(o) |-> df.rows[o[i]]]) :
     o \in TieOrders(df, by, ColumnValues(df, by))}

\* df.sort_values(by=by, ascending=ascending, ignore_index=True), line 100.
\* No kind is passed, so pandas sorts with kind='quicksort', which is not
\* a stable algorithm: rows with equal values may come out in any order.
\* The result is one member of this set.
SortValues(df, by, ascending) ==
  LET vals == IF ascending THEN ColumnValues(df, by)
              ELSE Reverse(ColumnValues(df, by))
  IN  {DataFrame([i \in 1..Len(o) |-> df.rows[o[i]]]) :
         o \in TieOrders(df, by, vals)}

PageSizes == {10, 25, 50, 100}      \* line 104
TurnoutColumns == {"state", "count"}

\* line 106
TotalPages(df, size) == Max(1, Len(df.rows) \div size)

\* ------------------------------------------------- SpecPaginate inputs
\* paginate_table receives location_result: one row per state, in state
\* order, labelled 0..n-1 (line 160).
TableOf(counts) ==
  DataFrame([i \in 1..Len(counts) |-> [state |-> i, count |-> counts[i]]])

SmallTables == {TableOf(c) : c \in SeqsUpTo(1..MaxCount, MaxSmallRows)}

\* longer tables: counts increasing, decreasing, or increasing with the
\* last row repeating the first row's count
BigTables ==
  UNION {{TableOf([i \in 1..n |-> i]),
          TableOf([i \in 1..n |-> n + 1 - i]),
          TableOf([i \in 1..n |-> IF i = n THEN 1 ELSE i])} :
         n \in (MaxSmallRows + 1)..MaxRows}

InitPaginate ==
  /\ IdleReduce
  /\ IdleMain
  /\ table_data \in SmallTables \cup BigTables
  /\ sort = None /\ sort_field = None /\ sort_direction = None
  /\ sorted_data = None /\ batch_size = None /\ total_pages = None
  /\ current_page = None /\ pages = None /\ shown = None
  /\ pstage = "called"

\* lines 94-100: the sort widgets and the table after sorting
SortChoices(td) ==
  {[sort |-> "No", sort_field |-> None, sort_direction |-> None, sorted_data |-> td]}
  \cup UNION {{[sort |-> "Yes", sort_field |-> f, sort_direction |-> d, sorted_data |-> sd] :
                 sd \in SortValues(td, f, d = "up")} :
              f \in TurnoutColumns, d \in {"up", "down"}}

\* lines 104-107: the page size chosen, the page count, and a page number
\* the number_input accepts (min_value=1, max_value=total_pages)
PageChoices(sd) ==
  UNION {{[batch_size |-> bs, total_pages |-> TotalPages(sd, bs), current_page |-> cp] :
            cp \in 1..TotalPages(sd, bs)} :
         bs \in PageSizes}

\* paginate_table, lines 87-111, with the operator's widget choices
PaginateTable ==
  /\ pstage = "called"
  /\ pstage' = "returned"
  /\ IF table_data.rows = <<>>
     THEN /\ shown' = "No data available."
          /\ UNCHANGED <<sort, sort_field, sort_direction, sorted_data,
                         batch_size, total_pages, current_page, pages>>
     ELSE \E sc \in SortChoices(table_data) :
          \E pg \in PageChoices(sc.sorted_data) :
            /\ sort' = sc.sort
            /\ sort_field' = sc.sort_field
            /\ sort_direction' = sc.sort_direction
            /\ sorted_data' = sc.sorted_data
            /\ batch_size' = pg.batch_size
            /\ total_pages' = pg.total_pages
            /\ current_page' = pg.current_page
            /\ pages' = SplitFrame(sorted_data', batch_size')
            /\ shown' = pages'[current_page']
  /\ UNCHANGED <<table_data, vars_r, vars_m>>

NextPaginate == PaginateTable

SpecPaginate == InitPaginate /\ [][NextPaginate]_vars

\* ------------------------------------------------------- the script run
\* A display slot holds [val, age]: age "pass" when the update_data pass in
\* progress (or, between runs, the last one) wrote it, "run" when an
\* earlier pass of the same script run did, "stale" when it is left over
\* from the previous run, which Streamlit keeps on the page until the
\* current run ends.
Aged(slot, from, to) == IF slot.age = from THEN [slot EXCEPT !.age = to] ELSE slot

Cleared(slot) == IF slot.age = "stale" THEN Blank ELSE slot

StalePage(slot) == IF slot.age = "blank" THEN slot ELSE [slot EXCEPT !.age = "stale"]

\* the counts the two queries can return; the candidates table is filled
\* once, before voting, and keeps its one row
StatsPairs == (0..MaxVoters) \X {1}

StatsError == "Error fetching voting stats"
ConsumerError == "Error creating Kafka consumer"
PollError == "Error fetching data from Kafka"

\* a fetch_voting_stats whose except branch returns (0, 0) without st.error
FetchVotingStatsSilent(m, up, counts) ==
  IF m # <<>>
  THEN [value |-> m[1].value, memo |-> m, err |-> m[1].msgs, src |-> "memo"]
  ELSE IF up
       THEN [value |-> counts, memo |-> <<[value |-> counts, msgs |-> {}]>>,
             err |-> {}, src |-> "query"]
       ELSE [value |-> <<0, 0>>, memo |-> <<[value |-> <<0, 0>>, msgs |-> {}]>>,
             err |-> {}, src |-> "failed"]

\* fetch_voting_stats, lines 26-44, under st.cache_data: m is the cache
\* (at most one entry: the function has no arguments, and the decorator
\* sets no ttl and nothing clears it), up and counts are the store.  A call
\* answered by the cache does not run the body: it returns the cached
\* value and shows again the st elements the cached call had shown.  The
\* body returns normally from its except branch, so (0, 0) is cached like
\* any other value, with its st.error.
FetchVotingStats(m, up, counts) ==
  IF m # <<>>
  THEN [value |-> m[1].value, memo |-> m, err |-> m[1].msgs, src |-> "memo"]
  ELSE IF up
       THEN [value |-> counts, memo |-> <<[value |-> counts, msgs |-> {}]>>,
             err |-> {}, src |-> "query"]
       ELSE [value |-> <<0, 0>>,
             memo |-> <<[value |-> <<0, 0>>, msgs |-> {<<"stats", StatsError>>}]>>,
             err |-> {<<"stats", StatsError>>}, src |-> "failed"]

\* create_kafka_consumer (lines 12-23) and fetch_data_from_kafka (lines
\* 47-57) on one topic, B the batches a poll may return: the consumer
\* cannot be created (None, line 23), the poll raises ([], line 57), or
\* the poll returns a batch, possibly empty.
PipelineOutcomes(tp, B) ==
  {[out |-> "no_consumer", data |-> <<>>, err |-> {<<tp, ConsumerError>>}],
   [out |-> "poll_failed", data |-> <<>>, err |-> {<<tp, PollError>>}]}
  \cup {[out |-> IF b = <<>> THEN "empty" ELSE "data", data |-> b, err |-> {}] : b \in B}

\* what a poll may return in Spec: the running counter of one key, as the
\* partial aggregates 1, 2, ..., k of one poll
PolledVotes ==
  {[i \in 1..k |-> [candidate_id |-> 1, candidate_name |-> "x", total_votes |-> i]] :
     k \in 0..MaxPolled}
PolledTurnout == {[i \in 1..k |-> [state |-> 1, count |-> i]] : k \in 0..MaxPolled}

Init ==
  /\ IdleReduce
  /\ IdlePaginate
  /\ pc = "sidebar"
  /\ call = None
  /\ button = FALSE
  /\ pending = "none"
  /\ last_update = None
  /\ memo = <<>>
  /\ store_up \in BOOLEAN
  /\ store_counts \in StatsPairs
  /\ d_refresh = Blank /\ d_stats = Blank /\ d_votes = Blank /\ d_turnout = Blank
  /\ errors = {}
  /\ stats_src = None /\ votes_out = None /\ turnout_out = None
  /\ owed = 1

\* the store's tables gain or lose rows
StoreChange ==
  /\ \E c \in StatsPairs \ {store_counts} : store_counts' = c
  /\ UNCHANGED <<pc, call, button, pending, last_update, memo, store_up,
                 d_refresh, d_stats, d_votes, d_turnout, errors,
                 stats_src, votes_out, turnout_out, owed,
                 vars_r, vars_p>>

\* the store goes down or comes back
StoreFlip ==
  /\ store_up' = ~store_up
  /\ UNCHANGED <<pc, call, button, pending, last_update, memo, store_counts,
                 d_refresh, d_stats, d_votes, d_turnout, errors,
                 stats_src, votes_out, turnout_out, owed,
                 vars_r, vars_p>>

\* st_autorefresh (line 173) fires: the front end asks for a rerun.
\* Requests not yet served are merged into one.
AutoRefresh ==
  /\ last_update # None
  /\ pending' = IF pending = "button" THEN "button" ELSE "rerun"
  /\ UNCHANGED <<pc, call, button, last_update, memo, store_up, store_counts,
                 d_refresh, d_stats, d_votes, d_turnout, errors,
                 stats_src, votes_out, turnout_out, owed,
                 vars_r, vars_p>>

\* the operator clicks 'Refresh Data' (line 175)
ClickRefresh ==
  /\ last_update # None
  /\ pending' = "button"
  /\ UNCHANGED <<pc, call, button, last_update, memo, store_up, store_counts,
                 d_refresh, d_stats, d_votes, d_turnout, errors,
                 stats_src, votes_out, turnout_out, owed,
                 vars_r, vars_p>>

\* The pending request is served: the script runs again from line 179.  A
\* run still in progress is stopped where it is; what it put on the page
\* stays there, stale, like the rest of the page.
Rerun ==
  /\ pending # "none"
  /\ pc' = "sidebar"
  /\ call' = None
  /\ button' = (pending = "button")
  /\ pending' = "none"
  /\ d_refresh' = StalePage(d_refresh)
  /\ d_stats' = StalePage(d_stats)
  /\ d_votes' = StalePage(d_votes)
  /\ d_turnout' = StalePage(d_turnout)
  /\ errors' = {}
  /\ stats_src' = None /\ votes_out' = None /\ turnout_out' = None
  /\ owed' = 1
  /\ UNCHANGED <<last_update, memo, store_up, store_counts,
                 vars_r, vars_p>>

\* control enters update_data from call site c
EnterUpdateData(c) ==
  /\ pc' = "u_start"
  /\ call' = c
  /\ d_refresh' = Aged(d_refresh, "pass", "run")
  /\ d_stats' = Aged(d_stats, "pass", "run")
  /\ d_votes' = Aged(d_votes, "pass", "run")
  /\ d_turnout' = Aged(d_turnout, "pass", "run")
  /\ stats_src' = None /\ votes_out' = None /\ turnout_out' = None
  /\ owed' = 0

\* lines 179-180 and the call at 176 or 181: sidebar() initialises
\* last_update, then update_data is called from the button branch when the
\* button was clicked, from line 181 otherwise
Sidebar ==
  /\ pc = "sidebar"
  /\ last_update' = IF last_update = None THEN "sidebar" ELSE last_update
  /\ EnterUpdateData(IF button THEN "sidebar" ELSE "main")
  /\ UNCHANGED <<button, pending, memo, store_up, store_counts, errors,
                 vars_r, vars_p>>

\* update_data, lines 115-116
UStart ==
  /\ pc = "u_start"
  /\ d_refresh' = [val |-> "Last refreshed at", age |-> "pass"]
  /\ pc' = "u_stats"
  /\ UNCHANGED <<call, button, pending, last_update, memo, store_up, store_counts,
                 d_stats, d_votes, d_turnout, errors,
                 stats_src, votes_out, turnout_out, owed,
                 vars_r, vars_p>>

\* update_data, lines 118-122
UStats ==
  /\ pc = "u_stats"
  /\ LET r == FetchVotingStats(memo, store_up, store_counts)
     IN  /\ memo' = r.memo
         /\ errors' = errors \cup r.err
         /\ stats_src' = r.src
         /\ d_stats' = [val |-> r.value, age |-> "pass"]
  /\ pc' = "u_votes"
  /\ UNCHANGED <<call, button, pending, last_update, store_up, store_counts,
                 d_refresh, d_votes, d_turnout,
                 votes_out, turnout_out, owed,
                 vars_r, vars_p>>

\* an update_data that runs the turnout pipeline (lines 155-163) where the
\* candidate pipeline belongs
UVotesTurnoutFirst ==
  /\ pc = "u_votes"
  /\ \E o \in PipelineOutcomes(TurnoutTopic, PolledTurnout) :
       /\ turnout_out' = o.out
       /\ errors' = errors \cup o.err
       /\ d_turnout' = IF o.data # <<>>
                       THEN [val |-> ReduceTurnout(o.data), age |-> "pass"]
                       ELSE d_turnout
  /\ pc' = "u_turnout"
  /\ UNCHANGED <<call, button, pending, last_update, memo, store_up, store_counts,
                 d_refresh, d_stats, d_votes,
                 stats_src, votes_out, owed,
                 vars_r, vars_p>>

\* update_data, lines 124-153
UVotes ==
  /\ pc = "u_votes"
  /\ \E o \in PipelineOutcomes(VotesTopic, PolledVotes) :
       /\ votes_out' = o.out
       /\ errors' = errors \cup o.err
       /\ d_votes' = IF o.data # <<>>
                     THEN [val |-> [leading |-> LeadingCandidate(ReduceVotes(o.data)),
                                    table |-> StatisticsTable(ReduceVotes(o.data))],
                           age |-> "pass"]
                     ELSE d_votes
  /\ pc' = "u_turnout"
  /\ UNCHANGED <<call, button, pending, last_update, memo, store_up, store_counts,
                 d_refresh, d_stats, d_turnout,
                 stats_src, turnout_out, owed,
                 vars_r, vars_p>>

\* update_data, lines 155-163
UTurnout ==
  /\ pc = "u_turnout"
  /\ \E o \in PipelineOutcomes(TurnoutTopic, PolledTurnout) :
       /\ turnout_out' = o.out
       /\ errors' = errors \cup o.err
       /\ IF o.data # <<>>
          THEN \E sc \in SortChoices(ReduceTurnout(o.data)) :
               \E pg \in PageChoices(sc.sorted_data) :
                 d_turnout' = [val |-> SplitFrame(sc.sorted_data, pg.batch_size)[pg.current_page],
                               age |-> "pass"]
          ELSE d_turnout' = d_turnout
  /\ pc' = "u_stamp"
  /\ UNCHANGED <<call, button, pending, last_update, memo, store_up, store_counts,
                 d_refresh, d_stats, d_votes,
                 stats_src, votes_out, owed,
                 vars_r, vars_p>>

\* update_data, line 165
UStamp ==
  /\ pc = "u_stamp"
  /\ last_update' = "update_data"
  /\ pc' = "u_return"
  /\ UNCHANGED <<call, button, pending, memo, store_up, store_counts,
                 d_refresh, d_stats, d_votes, d_turnout, errors,
                 stats_src, votes_out, turnout_out, owed,
                 vars_r, vars_p>>

\* update_data returns: to line 181 when it was called at line 176,
\* otherwise the script ends and the stale elements leave the page
UReturn ==
  /\ pc = "u_return"
  /\ IF call = "sidebar"
     THEN EnterUpdateData("main")
     ELSE /\ pc' = "idle"
          /\ call' = None
          /\ d_refresh' = Cleared(d_refresh)
          /\ d_stats' = Cleared(d_stats)
          /\ d_votes' = Cleared(d_votes)
          /\ d_turnout' = Cleared(d_turnout)
          /\ UNCHANGED <<stats_src, votes_out, turnout_out, owed>>
  /\ UNCHANGED <<button, pending, last_update, memo, store_up, store_counts, errors,
                 vars_r, vars_p>>

Next ==
  \/ StoreChange \/ StoreFlip
  \/ AutoRefresh \/ ClickRefresh \/ Rerun
  \/ Sidebar \/ UStart \/ UStats \/ UVotes \/ UTurnout \/ UStamp \/ UReturn

Spec == Init /\ [][Next]_vars

\* ------------------------------------------------- claims on the reduction
DataPos == 1..Len(data)
DataKeys == {data[i][KeyCol] : i \in DataPos}
\* largest counter among the records of the batch with key k
KeyMax(k) == SetMax({data[i][CounterCol] : i \in {j \in DataPos : data[j][KeyCol] = k}})
\* the keys whose maximum is the overall maximum
TiedKeys == {k \in DataKeys : \A k2 \in DataKeys : KeyMax(k2) <= KeyMax(k)}
\* position of the first record of key k in the batch
FirstPos(k) == SetMin({i \in DataPos : data[i][KeyCol] = k})
\* data with a copy of its i-th record delivered again after position j
Redelivered(i, j) == SubSeq(data, 1, j) \o <<data[i]>> \o SubSeq(data, j + 1, Len(data))

\* C1: the reduced table has exactly one row per distinct grouping key of
\* the batch, and the row's counter is the maximum counter among the
\* records of the batch sharing that key (both topics).
C1_OneRowPerKeyWithMax ==
  rstage = "reduced" =>
    LET rows == table.rows
    IN  /\ {rows[i][KeyCol] : i \in 1..Len(rows)} = DataKeys
        /\ \A i, j \in 1..Len(rows) : rows[i][KeyCol] = rows[j][KeyCol] => i = j
        /\ \A i \in 1..Len(rows) : rows[i][CounterCol] = KeyMax(rows[i][KeyCol])

\* a reduced batch where one key occurs twice with a lower counter first,
\* next to a second key
C1_Witness ==
  /\ rstage = "reduced"
  /\ Cardinality(DataKeys) = 2
  /\ \E i, j \in DataPos :
       /\ i < j
       /\ data[i][KeyCol] = data[j][KeyCol]
       /\ data[i][CounterCol] < data[j][CounterCol]

\* C2 as claimed: the leading record has the overall maximum counter and,
\* among keys tied on it, belongs to the key appearing first in the batch.
C2_LeadingFirstInBatch ==
  (rstage = "reduced" /\ topic = VotesTopic) =>
    /\ leading_candidate.total_votes = SetMax({data[i].total_votes : i \in DataPos})
    /\ \A k \in TiedKeys : FirstPos(leading_candidate.candidate_id) <= FirstPos(k)

\* C2 amended: the leading record has the overall maximum counter and,
\* among keys tied on it, belongs to the smallest key in sort order (the
\* first such row of the reduced table); it is that key's reduced row.
C2_LeadingFirstInKeyOrder ==
  (rstage = "reduced" /\ topic = VotesTopic) =>
    /\ leading_candidate.total_votes = SetMax({data[i].total_votes : i \in DataPos})
    /\ leading_candidate.candidate_id = SetMin(TiedKeys)
    /\ \E i \in 1..Len(results.rows) : results.rows[i] = leading_candidate

\* two keys tie on the maximum and the larger key arrived first
C2_Witness ==
  /\ rstage = "reduced"
  /\ topic = VotesTopic
  /\ Cardinality(TiedKeys) = 2
  /\ FirstPos(SetMax(TiedKeys)) < FirstPos(SetMin(TiedKeys))

\* C3: delivering the whole batch twice, or any record of it again later
\* in the batch, leaves the reduced table (keys, counters, descriptive
\* fields, row order) and the leading record unchanged.
C3_DuplicationIdempotent ==
  rstage = "reduced" =>
    IF topic = VotesTopic
    THEN /\ ReduceVotes(data \o data) = results
         /\ LeadingCandidate(ReduceVotes(data \o data)) = leading_candidate
         /\ StatisticsTable(ReduceVotes(data \o data)) = table
         /\ \A i \in DataPos : \A j \in i..Len(data) :
              /\ ReduceVotes(Redelivered(i, j)).rows = results.rows
              /\ StatisticsTable(ReduceVotes(Redelivered(i, j))) = table
              /\ LeadingCandidate(ReduceVotes(Redelivered(i, j))) = leading_candidate
    ELSE /\ ReduceTurnout(data \o data) = results
         /\ \A i \in DataPos : \A j \in i..Len(data) :
              ReduceTurnout(Redelivered(i, j)) = results

\* a reduced candidate batch holding the same key and counter twice with
\* different descriptive fields
C3_Witness ==
  /\ rstage = "reduced"
  /\ topic = VotesTopic
  /\ \E i, j \in DataPos :
       /\ i < j
       /\ data[i].candidate_id = data[j].candidate_id
       /\ data[i].total_votes = data[j].total_votes
       /\ data[i].candidate_name # data[j].candidate_name
\* ------------------------------------------------- claims on pagination
RECURSIVE ConcatFrames(_)
\* the frames of a list put one after another
ConcatFrames(fs) ==
  IF fs = <<>> THEN EmptyFrame
  ELSE LET rest == ConcatFrames(Tail(fs))
       IN  [index |-> Head(fs).index \o rest.index,
            rows  |-> Head(fs).rows \o rest.rows]

RECURSIVE RowsOnPages(_, _)
\* number of rows on the pages numbered 1..k
RowsOnPages(fs, k) == IF k = 0 THEN 0 ELSE Len(fs[k].rows) + RowsOnPages(fs, k - 1)

Paginated == pstage = "returned" /\ table_data.rows # <<>>

\* C4: the pages split_frame makes of the sorted table, concatenated in
\* page order, are the sorted table: same rows, same labels, same order;
\* for the page size chosen and for every other positive page size.
C4_PagesRoundTrip ==
  Paginated =>
    /\ ConcatFrames(pages) = sorted_data
    /\ \A rows \in 1..(Len(sorted_data.rows) + 1) :
         /\ ConcatFrames(SplitFrame(sorted_data, rows)) = sorted_data
         /\ \A k \in 1..Len(SplitFrame(sorted_data, rows)) :
              SplitFrame(sorted_data, rows)[k].rows # <<>>

\* a sorted table split into three pages, the last one partial
C4_Witness ==
  /\ Paginated
  /\ sort = "Yes"
  /\ Len(pages) = 3
  /\ Len(pages[3].rows) < batch_size

\* C5 as claimed: total_pages = max(1, floor(n / s)) and the pages numbered
\* 1..total_pages hold all n rows, the last numbered page taking the
\* remainder (n = 23, s = 10: two pages of 10 and 13 rows).
C5_NumberedPagesHoldAllRows ==
  Paginated =>
    /\ total_pages = Max(1, Len(sorted_data.rows) \div batch_size)
    /\ RowsOnPages(pages, total_pages) = Len(sorted_data.rows)
    /\ (Len(sorted_data.rows) = 23 /\ batch_size = 10) =>
         /\ total_pages = 2
         /\ Len(pages[1].rows) = 10
         /\ Len(pages[2].rows) = 13

\* position of a row in the frame handed to paginate_table
InputPos(r) == CHOOSE i \in 1..Len(table_data.rows) : table_data.rows[i] = r

\* the sorted table is ordered by the sort column in the chosen direction
OrderedByField ==
  \A i, j \in 1..Len(sorted_data.rows) :
    i < j => IF sort_direction = "up"
             THEN sorted_data.rows[i][sort_field] <= sorted_data.rows[j][sort_field]
             ELSE sorted_data.rows[i][sort_field] >= sorted_data.rows[j][sort_field]

\* C6 as claimed: the table is sorted by the column in the requested
\* direction and rows with equal values keep their relative input order.
C6_SortStable ==
  (Paginated /\ sort = "Yes") =>
    /\ OrderedByField
    /\ \A i, j \in 1..Len(sorted_data.rows) :
         (i < j /\ sorted_data.rows[i][sort_field] = sorted_data.rows[j][sort_field])
           => InputPos(sorted_data.rows[i]) < InputPos(sorted_data.rows[j])

\* C6 amended: the whole table is sorted by the column in the requested
\* direction before chunking, holds exactly the input's rows, and is
\* relabelled 0..n-1; nothing is promised about the order of equal values.
C6_SortedPermutation ==
  (Paginated /\ sort = "Yes") =>
    /\ OrderedByField
    /\ Len(sorted_data.rows) = Len(table_data.rows)
    /\ Range(sorted_data.rows) = Range(table_data.rows)
    /\ sorted_data.index = [i \in 1..Len(table_data.rows) |-> i - 1]
    /\ ConcatFrames(pages).rows = sorted_data.rows

\* a descending sort on a column with equal values, the equal rows in
\* reversed input order
C6_Witness ==
  /\ Paginated
  /\ sort = "Yes"
  /\ sort_direction = "down"
  /\ \E i, j \in 1..Len(sorted_data.rows) :
       /\ i < j
       /\ sorted_data.rows[i][sort_field] = sorted_data.rows[j][sort_field]
       /\ InputPos(sorted_data.rows[i]) > InputPos(sorted_data.rows[j])
\* ------------------------------------------------ claims on the script run
Fresh(slot) == slot.age = "pass"
StatsRead == pc = "u_stats" /\ pc' = "u_votes"
PassStarts == pc # "u_start" /\ pc' = "u_start"
Failed(out) == out \in {"no_consumer", "poll_failed"}
FailureError(out) == IF out = "no_consumer" THEN ConsumerError ELSE PollError

\* what holds of every pass whatever failed in it
CaughtFailures ==
  /\ stats_src = "failed" =>
       /\ d_stats = [val |-> <<0, 0>>, age |-> "pass"]
       /\ <<"stats", StatsError>> \in errors
       /\ pc \in {"u_votes", "u_turnout", "u_stamp", "u_return", "idle"}
  /\ Failed(votes_out) =>
       /\ <<VotesTopic, FailureError(votes_out)>> \in errors
       /\ ~Fresh(d_votes)
       /\ pc \in {"u_turnout", "u_stamp", "u_return", "idle"}
  /\ Failed(turnout_out) =>
       /\ <<TurnoutTopic, FailureError(turnout_out)>> \in errors
       /\ ~Fresh(d_turnout)
       /\ pc \in {"u_stamp", "u_return", "idle"}
  /\ pc \in {"u_stamp", "u_return"} =>
       /\ stats_src # None /\ votes_out # None /\ turnout_out # None
       /\ Fresh(d_stats)
       /\ votes_out = "data" => Fresh(d_votes)
       /\ turnout_out = "data" => Fresh(d_turnout)
  /\ pc = "u_return" => last_update = "update_data"

\* C7 as claimed: a failure of the store or of a stream is not fatal to the
\* pass; whenever the store is unreachable at the stats read the pair shown
\* is (0, 0) with an error surfaced, a failed consumer or poll leaves that
\* topic without data only, the other pipelines run and display their
\* data, and the pass ends by writing last_update.
C7_StoreDownYieldsZeros ==
  /\ []CaughtFailures
  /\ [][(StatsRead /\ ~store_up) =>
          /\ d_stats'.val = <<0, 0>>
          /\ <<"stats", StatsError>> \in errors']_vars

\* C7 amended: as claimed, except that the stats read yields (0, 0) with an
\* error only when no result is memoised and the query fails; a memoised
\* result is returned as it is, the store not being contacted, whether or
\* not the store is reachable.
C7_FailuresNotFatal ==
  /\ []CaughtFailures
  /\ [][StatsRead =>
          IF memo = <<>>
          THEN IF store_up
               THEN d_stats'.val = store_counts /\ stats_src' = "query"
               ELSE /\ d_stats'.val = <<0, 0>>
                    /\ <<"stats", StatsError>> \in errors'
                    /\ stats_src' = "failed"
          ELSE /\ d_stats'.val = memo[1].value
               /\ errors' = errors \cup memo[1].msgs
               /\ memo' = memo
               /\ stats_src' = "memo"]_vars

\* a pass at its end in which the store read and the candidate stream
\* failed and the turnout stream delivered
C7_Witness ==
  /\ pc = "u_return"
  /\ stats_src = "failed"
  /\ Failed(votes_out)
  /\ turnout_out = "data"
  /\ Fresh(d_turnout)
  /\ last_update = "update_data"

\* C8 as claimed: the display never shows the candidate results of the
\* pass in progress next to a turnout table of an earlier pass, or none,
\* while the pass's turnout pipeline has not run.
C8_AtomicPublication ==
  ~(pc = "u_turnout" /\ Fresh(d_votes) /\ ~Fresh(d_turnout))

\* C8 amended: the results of a pass are published one by one in source
\* order; each is visible only once its own pipeline has completed, and
\* the turnout table of a pass never before the pass's stats read and
\* candidate pipeline have completed.
C8_IncrementalPublication ==
  /\ Fresh(d_stats) =>
       /\ pc \in {"u_votes", "u_turnout", "u_stamp", "u_return", "idle"}
       /\ stats_src # None
  /\ Fresh(d_votes) =>
       /\ pc \in {"u_turnout", "u_stamp", "u_return", "idle"}
       /\ votes_out = "data"
       /\ Fresh(d_stats)
  /\ Fresh(d_turnout) =>
       /\ pc \in {"u_stamp", "u_return", "idle"}
       /\ turnout_out = "data"
       /\ votes_out # None
       /\ Fresh(d_stats)

\* the candidate results of the pass in progress next to the previous
\* run's turnout table, before the turnout pipeline has run
C8_Witness ==
  /\ pc = "u_turnout"
  /\ Fresh(d_votes)
  /\ d_turnout.age = "stale"

\* C9 as claimed: passes do not overlap and the refresh requests arriving
\* during a pass are coalesced into one, served by at most one extra pass:
\* every pass that starts is the one pass of the request its run serves.
C9_CoalescedSinglePass == [][PassStarts => owed = 1]_vars

\* C10 as claimed: the memoised pair is not served forever; at the latest a
\* manual refresh reads the store again, so the stats read of a pass run
\* by the button, with the store reachable, shows the store's counts.
C10_ManualRefreshRequeries ==
  [][(StatsRead /\ button /\ store_up) => d_stats'.val = store_counts]_vars
====
